---- MODULE Spec2Model ----
(***************************************************************************)
(* A model of crawler.py: the news crawler of media.kpfu.ru.               *)
(*                                                                         *)
(* crawl() walks the paginated news listing collecting article URLs        *)
(* (extract_article_links), then fetches the collected URLs, keeps the     *)
(* ones is_text_page accepts as page_NNNN.txt files and finally writes     *)
(* index.txt.  URLs, file names and index lines are strings, as in the     *)
(* code; page text is a sequence of Unicode code points.                   *)
(***************************************************************************)
EXTENDS Integers, Sequences, FiniteSets, TLC

(***************************************************************************)
(* Module constants of crawler.py.                                         *)
(***************************************************************************)
BASE_URL == "https://media.kpfu.ru"
NEWS_URL == "https://media.kpfu.ru/news"
\* MIN_PAGES is 100 and max_pages_to_try is 30 in the code; the model runs
\* the same loops with smaller values.
MIN_PAGES == 3
max_pages_to_try == 4
\* len(text) < 100 in is_text_page
MinTextLen == 100
\* [a-zA-Z]{3,}
MinLatinRun == 3
\* page_{n:04d}.txt
FilenameWidth == 4

(***************************************************************************)
(* Python str operations on strings.                                       *)
(***************************************************************************)
Slice(s, i, j) == SubSeq(s, i, j)

CharAt(s, i) == SubSeq(s, i, i)

StartsWith(s, p) == Len(s) >= Len(p) /\ SubSeq(s, 1, Len(p)) = p

EndsWith(s, p) == Len(s) >= Len(p) /\ SubSeq(s, Len(s) - Len(p) + 1, Len(s)) = p

Contains(s, p) == \E i \in 1..(Len(s) - Len(p) + 1) : SubSeq(s, i, i + Len(p) - 1) = p

\* str.find for a set of one-character strings: the first position holding
\* one of them, 0 when there is none.
RECURSIVE FindFrom(_, _, _)
FindFrom(s, cs, i) ==
    IF i > Len(s) THEN 0
    ELSE IF CharAt(s, i) \in cs THEN i
    ELSE FindFrom(s, cs, i + 1)

Find(s, cs) == FindFrom(s, cs, 1)

UpperLetters == "ABCDEFGHIJKLMNOPQRSTUVWXYZ"
LowerLetters == "abcdefghijklmnopqrstuvwxyz"
DigitChars == "0123456789"

CharsOf(s) == {CharAt(s, i) : i \in 1..Len(s)}

LowerChar(c) ==
    LET i == Find(UpperLetters, {c})
    IN  IF i = 0 THEN c ELSE CharAt(LowerLetters, i)

RECURSIVE Lower(_)
Lower(s) == IF s = "" THEN "" ELSE LowerChar(CharAt(s, 1)) \o Lower(Slice(s, 2, Len(s)))

(***************************************************************************)
(* urllib.parse: urlparse and urljoin, for URLs without ";params" and      *)
(* without dot segments.                                                   *)
(***************************************************************************)
SchemeChars == CharsOf(UpperLetters) \cup CharsOf(LowerLetters) \cup CharsOf(DigitChars)
               \cup {"+", "-", "."}

IsScheme(s) ==
    /\ s # ""
    /\ CharAt(s, 1) \in CharsOf(UpperLetters) \cup CharsOf(LowerLetters)
    /\ \A i \in 1..Len(s) : CharAt(s, i) \in SchemeChars

\* The part of s before the first character of cs, and the part after it.
Before(s, cs) == LET i == Find(s, cs) IN IF i = 0 THEN s ELSE Slice(s, 1, i - 1)
After(s, cs) == LET i == Find(s, cs) IN IF i = 0 THEN "" ELSE Slice(s, i + 1, Len(s))

\* The part of s from the first character of cs on.
From(s, cs) == LET i == Find(s, cs) IN IF i = 0 THEN "" ELSE Slice(s, i, Len(s))

\* urlparse, in the order it splits: scheme, netloc, fragment, query.
SplitQuery(scheme, netloc, rest, fragment) ==
    [scheme |-> scheme, netloc |-> netloc, path |-> Before(rest, {"?"}),
     query |-> After(rest, {"?"}), fragment |-> fragment]

SplitFragment(scheme, netloc, rest) ==
    SplitQuery(scheme, netloc, Before(rest, {"#"}), After(rest, {"#"}))

SplitNetloc(scheme, rest) ==
    IF StartsWith(rest, "//")
    THEN SplitFragment(scheme, Before(Slice(rest, 3, Len(rest)), {"/", "?", "#"}),
                       From(Slice(rest, 3, Len(rest)), {"/", "?", "#"}))
    ELSE SplitFragment(scheme, "", rest)

urlparse(url, default_scheme) ==
    IF Find(url, {":"}) > 0 /\ IsScheme(Before(url, {":"}))
    THEN SplitNetloc(Lower(Before(url, {":"})), After(url, {":"}))
    ELSE SplitNetloc(default_scheme, url)

\* s followed by sep and part, when there is a part.
WithPart(s, sep, part) == IF part # "" THEN s \o sep \o part ELSE s

HierPart(p) ==
    IF p.netloc # ""
    THEN "//" \o p.netloc \o (IF p.path # "" /\ ~StartsWith(p.path, "/") THEN "/" ELSE "")
         \o p.path
    ELSE p.path

urlunparse(p) ==
    WithPart(WithPart(IF p.scheme # "" THEN p.scheme \o ":" \o HierPart(p) ELSE HierPart(p),
                      "?", p.query),
             "#", p.fragment)

\* bpath.split('/') without its last segment, joined again.
RECURSIVE BaseDir(_)
BaseDir(bpath) ==
    IF bpath = "" \/ EndsWith(bpath, "/") THEN Slice(bpath, 1, Len(bpath) - 1)
    ELSE BaseDir(Slice(bpath, 1, Len(bpath) - 1))

\* urljoin once both URLs are parsed: b the base, u the reference.  The
\* base's scheme is https, which is in uses_relative and uses_netloc.
Resolve(b, u, base, url) ==
    IF url = "" THEN base
    ELSE IF u.scheme # b.scheme THEN url
    ELSE IF u.netloc # "" THEN urlunparse(u)
    ELSE IF u.path = ""
         THEN urlunparse([u EXCEPT !.netloc = b.netloc, !.path = b.path,
                                   !.query = IF u.query = "" THEN b.query ELSE u.query])
    ELSE IF StartsWith(u.path, "/")
         THEN urlunparse([u EXCEPT !.netloc = b.netloc])
    ELSE urlunparse([u EXCEPT !.netloc = b.netloc,
                              !.path = BaseDir(b.path) \o "/" \o u.path])

JoinParsed(b, base, url) == Resolve(b, urlparse(url, b.scheme), base, url)

urljoin(base, url) == JoinParsed(urlparse(base, ""), base, url)

(***************************************************************************)
(* Fetched bodies.  body is "none" for fetch_page's None, "empty" for the  *)
(* empty string and "markup" otherwise; hrefs is what                      *)
(* soup.find_all('a', href=True) yields; nodes are the document's text     *)
(* nodes, each with the tag of its element and its string (code points).   *)
(***************************************************************************)
NoBody == [body |-> "none", hrefs |-> {}, nodes |-> <<>>]
EmptyBody == [body |-> "empty", hrefs |-> {}, nodes |-> <<>>]
Markup(hs, ns) == [body |-> "markup", hrefs |-> hs, nodes |-> ns]

\* Python's "if html:" / "if not html:"
Truthy(html) == html.body = "markup"

(***************************************************************************)
(* extract_article_links                                                   *)
(***************************************************************************)
BlockedExtensions ==
    {".js", ".css", ".png", ".jpg", ".jpeg", ".gif", ".svg", ".ico", ".pdf", ".doc", ".docx"}

SkippedHref(href) == StartsWith(href, "#") \/ StartsWith(href, "javascript:")

SameNetloc(full_url) == urlparse(full_url, "").netloc = urlparse(BASE_URL, "").netloc

LoweredPath(full_url) == Lower(urlparse(full_url, "").path)

HasBlockedExtension(path) == \E ext \in BlockedExtensions : EndsWith(path, ext)

HasRss(path) == Contains(Lower(path), "rss")

\* IsListingRoot without the trailing-slash form.
IsListingRootNoSlash(path) == path = "/news"

\* if path == '/news' or path == '/news/': continue
IsListingRoot(path) == path = "/news" \/ path = "/news/"

InNewsNamespace(path) == Contains(path, "/news")

\* One pass of the loop body over one <a href>: the URLs it adds to links.
LinksByPath(full_url, path) ==
    IF HasBlockedExtension(path) THEN {}
    ELSE IF HasRss(path) THEN {}
    ELSE IF IsListingRoot(path) THEN {}
    ELSE IF InNewsNamespace(path) THEN {full_url}
    ELSE {}

LinksOfUrl(full_url) ==
    IF ~SameNetloc(full_url) THEN {} ELSE LinksByPath(full_url, LoweredPath(full_url))

LinksOfHref(href) ==
    IF SkippedHref(href) THEN {} ELSE LinksOfUrl(urljoin(BASE_URL, href))

extract_article_links(html_content) ==
    UNION {LinksOfHref(href) : href \in html_content.hrefs}

(***************************************************************************)
(* is_text_page                                                            *)
(***************************************************************************)
StrippedTags == {"script", "style", "meta", "link"}

\* str.strip(): Unicode white space, here the ones below U+00A1.
Whitespace == {9, 10, 11, 12, 13, 28, 29, 30, 31, 32, 133, 160}

RECURSIVE LStrip(_)
LStrip(t) == IF t # <<>> /\ Head(t) \in Whitespace THEN LStrip(Tail(t)) ELSE t

RECURSIVE RStrip(_)
RStrip(t) ==
    IF t # <<>> /\ t[Len(t)] \in Whitespace THEN RStrip(SubSeq(t, 1, Len(t) - 1)) ELSE t

Strip(t) == RStrip(LStrip(t))

\* soup.get_text(strip=True) after decompose() of the stripped tags: the
\* stripped strings of the remaining nodes, joined without a separator.
RECURSIVE get_text(_)
get_text(nodes) ==
    IF nodes = <<>> THEN <<>>
    ELSE IF Head(nodes).tag \in StrippedTags THEN get_text(Tail(nodes))
    ELSE Strip(Head(nodes).string) \o get_text(Tail(nodes))

\* [\u0400-\u04FF]
IsCyrillic(c) == c >= 1024 /\ c <= 1279

\* [a-zA-Z]
IsLatin(c) == (c >= 97 /\ c <= 122) \/ (c >= 65 /\ c <= 90)

\* cyrillic_pattern.search(text): some position matches.
SearchCyrillic(text) == \E i \in 1..Len(text) : IsCyrillic(text[i])

\* latin_pattern.search(text): at some position MinLatinRun letters follow
\* one another (the {3,} of the pattern takes the rest of the run too).
LatinRunAt(text, i) ==
    /\ i + MinLatinRun - 1 <= Len(text)
    /\ \A j \in i..(i + MinLatinRun - 1) : IsLatin(text[j])

SearchLatinRun(text) == \E i \in 1..Len(text) : LatinRunAt(text, i)

\* TooShort with <= for <.
TooShortInclusive(text) == Len(text) <= MinTextLen

\* if len(text) < 100: return False
TooShort(text) == Len(text) < MinTextLen

is_text_page(html_content) ==
    IF ~Truthy(html_content) THEN FALSE
    ELSE LET text == get_text(html_content.nodes)
         IN  IF TooShort(text) THEN FALSE
             ELSE IF ~SearchCyrillic(text)
                  THEN (IF ~SearchLatinRun(text) THEN FALSE ELSE TRUE)
             ELSE TRUE

(***************************************************************************)
(* save_page's file name and the index line of an accepted page.           *)
(***************************************************************************)
RECURSIVE ToStr(_)
ToStr(n) ==
    IF n < 10 THEN CharAt(DigitChars, n + 1)
    ELSE ToStr(n \div 10) \o CharAt(DigitChars, (n % 10) + 1)

RECURSIVE ZeroPad(_, _)
ZeroPad(s, width) == IF Len(s) >= width THEN s ELSE ZeroPad("0" \o s, width)

\* Filename with the counter left out of the name.
FilenameWithoutCounter(page_counter) == "page_" \o ZeroPad("", FilenameWidth) \o ".txt"

\* Filename without the :04d padding.
FilenameUnpadded(page_counter) == "page_" \o ToStr(page_counter) \o ".txt"

\* f"page_{page_counter:04d}.txt"
Filename(page_counter) == "page_" \o ZeroPad(ToStr(page_counter), FilenameWidth) \o ".txt"

\* f"{page_counter}\t{url}"
IndexEntry(page_counter, url) == ToStr(page_counter) \o "\t" \o url

\* NextCounter stepping by two.
NextCounterByTwo(page_counter) == page_counter + 2

\* page_counter += 1
NextCounter(page_counter) == page_counter + 1

IndexHeader == <<"# File Number\tURL",
                 "#============================================================">>

(***************************************************************************)
(* The remote site: what a fetch can return.                               *)
(***************************************************************************)
\* n times the code point c, and n times the text t.
Rep(c, n) == [i \in 1..n |-> c]

RepSeq(t, n) == [i \in 1..(n * Len(t)) |-> t[((i - 1) % Len(t)) + 1]]

Node(tag, string) == [tag |-> tag, string |-> string]

\* Listing pages, by the hrefs of their <a> elements.
ListingPages ==
    { Markup({}, <<>>),
      Markup({"#top", "javascript:void(0)", "/about", "/news", "/news/",
              "/News", "/news?page=2", "https://media.kpfu.ru/news"}, <<>>),
      Markup({"/news/1", "news/2", "/news"}, <<>>),
      Markup({"https://media.kpfu.ru/news/3?id=7#top", "//media.kpfu.ru/news/1",
              "/news/pic.jpg"}, <<>>),
      Markup({"http://media.kpfu.ru/news/4", "https://other.example/news/5",
              "/news/rss", "/news/doc.PDF", "mailto:news@media.kpfu.ru"}, <<>>),
      Markup({"/news/1"}, <<>>),
      Markup({"news/2", "/news?page=2", "/news/", "/news", "https://media.kpfu.ru/news"},
             <<>>) }

\* Code points: U+0430 and U+042F are Cyrillic, "7" is 55, "a" is 97.
CyrText(n) == Rep(1072, n)
DigitText(n) == Rep(55, n)

\* Article pages, by their text nodes: Cyrillic prose, Latin prose behind a
\* script, a page too short, and a page of digits.
ArticlePages ==
    { Markup({}, <<Node("h1", CyrText(60)), Node("p", <<32>> \o CyrText(40) \o <<10>>)>>),
      Markup({}, <<Node("script", CyrText(10)), Node("p", DigitText(97) \o <<65, 122, 90>>)>>),
      Markup({}, <<Node("p", CyrText(99)), Node("style", Rep(97, 200))>>),
      Markup({}, <<Node("p", DigitText(100))>>) }

\* requests.get: a failure (None), an empty body, or a page.
ListingResponses == {NoBody, EmptyBody} \cup ListingPages
ArticleResponses == {NoBody, EmptyBody} \cup ArticlePages

\* open()/write() on the local disk.
DiskOutcomes == {"ok", "open_fails", "write_fails"}

(***************************************************************************)
(* crawl(): its local variables, the files it writes, and what it did.     *)
(***************************************************************************)
VARIABLES
    pc,             \* where crawl() is
    html,           \* the body fetched last
    new_links,      \* the links extracted last
    page_num,       \* the listing page requested last, 0 before the loop
    article_urls,   \* the candidate set
    remaining,      \* what "for url in article_urls" has not yet yielded
    url,            \* the candidate being processed, "" before the loop
    saved_pages,    \* (page_counter, url, filename) of each saved page
    page_counter,
    index_entries,
    files,          \* OUTPUT_DIR: file name -> what this run wrote there
    index_file,     \* the lines of index.txt written by this run
    ret,            \* crawl()'s return value, -1 until it returns
    listing_log,    \* the listing pages requested, in order (0: NEWS_URL)
    fetch_count,    \* candidate URL -> number of fetch_page calls on it
    stop,           \* how the pagination loop ended
    error,          \* the call whose exception left crawl()
    outcome,        \* what the last frontier iteration did
    slept,          \* time.sleep(REQUEST_DELAY) was called since the last fetch_page
    index_writes    \* how many times INDEX_FILE was opened for writing

vars == <<pc, html, new_links, page_num, article_urls, remaining, url, saved_pages,
          page_counter, index_entries, files, index_file, ret, listing_log,
          fetch_count, stop, error, outcome, slept, index_writes>>

listingVars == <<html, new_links, page_num, article_urls, listing_log, stop>>
frontierVars == <<remaining, url, saved_pages, page_counter, index_entries, files,
                  fetch_count, outcome>>

Init ==
    /\ pc = "start"
    /\ html = NoBody
    /\ new_links = {}
    /\ page_num = 0
    /\ article_urls = {}
    /\ remaining = {}
    /\ url = ""
    /\ saved_pages = <<>>
    /\ page_counter = 0
    /\ index_entries = <<>>
    /\ files = <<>>
    /\ index_file = <<>>
    /\ ret = -1
    /\ listing_log = <<>>
    /\ fetch_count = <<>>
    /\ stop = "none"
    /\ error = "none"
    /\ outcome = "none"
    /\ slept = FALSE
    /\ index_writes = 0

\* f with key k set to v.
Put(f, k, v) == [x \in DOMAIN f \cup {k} |-> IF x = k THEN v ELSE f[x]]

\* os.makedirs(OUTPUT_DIR, exist_ok=True) and the initialisations.
Start ==
    /\ pc = "start"
    /\ \E ok \in BOOLEAN :
          IF ok THEN pc' = "main" /\ error' = error
          ELSE pc' = "aborted" /\ error' = "makedirs"
    /\ UNCHANGED <<listingVars, frontierVars, index_file, ret, slept, index_writes>>

\* AfterListing for range(1, max_pages_to_try + 2).
AfterListingOneMore(n) == IF n <= max_pages_to_try THEN "paginate" ELSE "collected"

\* The loop "for page_num in range(1, max_pages_to_try + 1)" is over once
\* page_num has reached max_pages_to_try.
AfterListing(n) == IF n < max_pages_to_try THEN "paginate" ELSE "collected"

\* FetchMain for a crawl that gives up when NEWS_URL cannot be fetched.
FetchMainGivesUp ==
    /\ pc = "main"
    /\ \E r \in ListingResponses :
          /\ html' = r
          /\ listing_log' = Append(listing_log, 0)
          /\ IF Truthy(r)
             THEN /\ new_links' = extract_article_links(r)
                  /\ article_urls' = article_urls \cup new_links'
                  /\ pc' = AfterListing(0)
                  /\ stop' = stop
             ELSE /\ pc' = "collected"
                  /\ stop' = "fail"
                  /\ UNCHANGED <<new_links, article_urls>>
    /\ slept' = FALSE
    /\ UNCHANGED <<page_num, frontierVars, index_file, ret, error, index_writes>>

\* html = fetch_page(NEWS_URL); if html: ...
FetchMain ==
    /\ pc = "main"
    /\ \E r \in ListingResponses :
          /\ html' = r
          /\ listing_log' = Append(listing_log, 0)
          /\ IF Truthy(r)
             THEN /\ new_links' = extract_article_links(r)
                  /\ article_urls' = article_urls \cup new_links'
             ELSE UNCHANGED <<new_links, article_urls>>
    /\ pc' = AfterListing(0)
    /\ stop' = IF max_pages_to_try = 0 THEN "bound" ELSE stop
    /\ slept' = FALSE
    /\ UNCHANGED <<page_num, frontierVars, index_file, ret, error, index_writes>>

\* OnListingFailure with continue for break.
OnListingFailureContinue(n) == AfterListing(n)

\* "if not html: ... break": where the loop goes after a failed fetch of
\* listing page n.
OnListingFailure(n) == "collected"

\* OnNoLinks with continue for break.
OnNoLinksContinue(n) == AfterListing(n)

\* "if not new_links: ... break": where it goes after a page n without links.
OnNoLinks(n) == "collected"

\* NoLinks for a test that looks for links not yet in article_urls.
NoUnseenLinks(links) == links \subseteq article_urls

\* "if not new_links": the set extracted from the page is empty.
NoLinks(links) == links = {}

\* One iteration of the pagination loop.
PaginationStep ==
    /\ pc = "paginate"
    /\ page_num' = page_num + 1
    /\ listing_log' = Append(listing_log, page_num')
    /\ \E r \in ListingResponses :
          /\ html' = r
          /\ IF ~Truthy(r)
             THEN /\ pc' = OnListingFailure(page_num')
                  /\ stop' = "fail"
                  /\ slept' = FALSE
                  /\ UNCHANGED <<new_links, article_urls>>
             ELSE /\ new_links' = extract_article_links(r)
                  /\ IF NoLinks(new_links')
                     THEN /\ pc' = OnNoLinks(page_num')
                          /\ stop' = "empty"
                          /\ slept' = FALSE
                          /\ UNCHANGED article_urls
                     ELSE /\ article_urls' = article_urls \cup new_links'
                          /\ slept' = TRUE
                          /\ pc' = AfterListing(page_num')
                          /\ stop' = IF pc' = "collected" THEN "bound" ELSE stop
    /\ UNCHANGED <<frontierVars, index_file, ret, error, index_writes>>

\* StartFrontier entered from inside the pagination loop.
StartFrontierEarly ==
    /\ pc \in {"paginate", "collected"}
    /\ pc' = "frontier"
    /\ index_entries' = <<>>
    /\ remaining' = article_urls
    /\ fetch_count' = [u \in article_urls |-> 0]
    /\ UNCHANGED <<listingVars, url, saved_pages, page_counter, files, outcome,
                   index_file, ret, error, slept, index_writes>>

\* index_entries = [] and the start of "for url in article_urls".
StartFrontier ==
    /\ pc = "collected"
    /\ pc' = "frontier"
    /\ index_entries' = <<>>
    /\ remaining' = article_urls
    /\ fetch_count' = [u \in article_urls |-> 0]
    /\ UNCHANGED <<listingVars, url, saved_pages, page_counter, files, outcome,
                   index_file, ret, error, slept, index_writes>>

\* AfterYield for an iterator that does not advance.
AfterYieldKeep(rest, u) == rest

\* The iterator of article_urls after it has yielded u.
AfterYield(rest, u) == rest \ {u}

\* TargetReached with > for >=.
TargetReachedLate(saved) == Len(saved) > MIN_PAGES

\* TargetReached with 1 for MIN_PAGES.
TargetReachedAtOne(saved) == Len(saved) >= 1

\* "if len(saved_pages) >= MIN_PAGES: break"
TargetReached(saved) == Len(saved) >= MIN_PAGES

\* OnSaveError for a save_page called inside try/except.
OnSaveErrorSwallowed == "frontier"

\* save_page is called outside any try: its exception leaves crawl().
OnSaveError == "aborted"

\* OnDiscard for a failure that ends the crawl.
OnDiscardFatal == "aborted"

\* "if not html: continue" and "if not is_text_page(html): ... continue":
\* the loop goes on with the next candidate.
OnDiscard == "frontier"

\* What save_page leaves in OUTPUT_DIR: the whole page, a truncated file
\* when write() raises, nothing when open() raises.
save_page(disk, content, filename, d) ==
    CASE d = "ok" -> Put(disk, filename, [from |-> content, complete |-> TRUE])
      [] d = "write_fails" -> Put(disk, filename, [from |-> content, complete |-> FALSE])
      [] d = "open_fails" -> disk

\* One iteration of the frontier loop on the candidate u, the site answering
\* r and the disk behaving as d.
FrontierIteration(u, r, d) ==
    /\ url' = u
    /\ remaining' = AfterYield(remaining, u)
    /\ html' = r
    /\ fetch_count' = [fetch_count EXCEPT ![u] = @ + 1]
    /\ IF ~Truthy(r)
       THEN /\ outcome' = "unavailable"
            /\ slept' = FALSE
            /\ pc' = OnDiscard
            /\ UNCHANGED <<page_counter, files, saved_pages, index_entries, error>>
       ELSE IF ~is_text_page(r)
       THEN /\ outcome' = "rejected"
            /\ slept' = FALSE
            /\ pc' = OnDiscard
            /\ UNCHANGED <<page_counter, files, saved_pages, index_entries, error>>
       ELSE /\ page_counter' = NextCounter(page_counter)
            /\ files' = save_page(files, u, Filename(page_counter'), d)
            /\ IF d = "ok"
               THEN /\ saved_pages' =
                         Append(saved_pages, <<page_counter', u, Filename(page_counter')>>)
                    /\ index_entries' = Append(index_entries, IndexEntry(page_counter', u))
                    /\ outcome' = "saved"
                    /\ slept' = TRUE
                    /\ UNCHANGED <<pc, error>>
               ELSE /\ pc' = OnSaveError
                    /\ error' = "save_page"
                    /\ outcome' = "raised"
                    /\ slept' = FALSE
                    /\ UNCHANGED <<saved_pages, index_entries>>

FrontierStep ==
    /\ pc = "frontier"
    /\ remaining # {}
    /\ ~TargetReached(saved_pages)
    /\ \E u \in remaining, r \in ArticleResponses, d \in DiskOutcomes :
          FrontierIteration(u, r, d)
    /\ UNCHANGED <<new_links, page_num, article_urls, listing_log, stop, index_file, ret,
                   index_writes>>

\* IndexLines without the header.
IndexLinesNoHeader(entries) == entries

\* The lines the index is made of.
IndexLines(entries) == IndexHeader \o entries

\* The end of the frontier loop (exhausted, or left by the break with the
\* next candidate already in url), the index file and the return.
WriteIndex ==
    /\ pc = "frontier"
    /\ remaining = {} \/ TargetReached(saved_pages)
    /\ IF remaining = {} THEN UNCHANGED <<url, remaining>>
       ELSE \E u \in remaining : url' = u /\ remaining' = AfterYield(remaining, u)
    /\ \E d \in DiskOutcomes :
          CASE d = "ok" ->
                 /\ index_file' = IndexLines(index_entries)
                 /\ ret' = Len(saved_pages)
                 /\ pc' = "done"
                 /\ index_writes' = index_writes + 1
                 /\ UNCHANGED error
            [] d = "write_fails" ->
                 /\ \E k \in 0..(Len(IndexLines(index_entries)) - 1) :
                       index_file' = SubSeq(IndexLines(index_entries), 1, k)
                 /\ pc' = "aborted"
                 /\ error' = "index"
                 /\ index_writes' = index_writes + 1
                 /\ UNCHANGED ret
            [] d = "open_fails" ->
                 /\ pc' = "aborted"
                 /\ error' = "index"
                 /\ UNCHANGED <<index_file, ret, index_writes>>
    /\ UNCHANGED <<listingVars, saved_pages, page_counter, index_entries, files,
                   fetch_count, outcome, slept>>

Next ==
    \/ Start
    \/ FetchMain
    \/ PaginationStep
    \/ StartFrontier
    \/ FrontierStep
    \/ WriteIndex

Spec == Init /\ [][Next]_vars

\* crawl() runs in one thread and every call it makes returns or raises
\* (requests.get has timeout=10, time.sleep is finite): a step that can be
\* taken is taken.
FairSpec == Spec /\ WF_vars(Next)

(***************************************************************************)
(* is_text_page on its own: one call on one document.                      *)
(***************************************************************************)
TextLengths == {0, 3, 99, 100, 101}

\* What the text ends with: Cyrillic and Latin letters, and the code points
\* next to the ranges of the two patterns.
TextEndings ==
    { <<>>, <<1072>>, <<1024>>, <<1279>>, <<1023>>, <<1280>>, <<97, 98, 99>>, <<97, 98>>,
      <<97, 98, 32, 99>>, <<65, 122, 90>>, <<64, 97, 91, 122, 96, 65, 123, 90>>,
      <<97, 98, 1072>> }

Layouts == {"plain", "padded", "hidden", "split"}

\* Digits before the ending, as many as it takes to make len code points.
Filler(len, ending) == DigitText(IF len >= Len(ending) THEN len - Len(ending) ELSE 0)

Document(len, ending, layout) ==
    CASE layout = "plain" -> Markup({}, <<Node("p", Filler(len, ending) \o ending)>>)
      [] layout = "padded" ->
           Markup({}, <<Node("p", <<32, 10>> \o Filler(len, ending) \o ending \o <<9>>)>>)
      [] layout = "hidden" ->
           Markup({}, <<Node("script", CyrText(100) \o <<97, 98, 99>>),
                        Node("p", Filler(len, ending) \o ending)>>)
      [] layout = "split" ->
           Markup({}, <<Node("b", ending), Node("p", Filler(len, ending))>>)

Documents ==
    {NoBody, EmptyBody} \cup
    {Document(len, ending, layout) :
        len \in TextLengths, ending \in TextEndings, layout \in Layouts}

InitClassifier ==
    /\ pc = "classify"
    /\ html \in Documents
    /\ new_links = {}
    /\ page_num = 0
    /\ article_urls = {}
    /\ remaining = {}
    /\ url = ""
    /\ saved_pages = <<>>
    /\ page_counter = 0
    /\ index_entries = <<>>
    /\ files = <<>>
    /\ index_file = <<>>
    /\ ret = -1
    /\ listing_log = <<>>
    /\ fetch_count = <<>>
    /\ stop = "none"
    /\ error = "none"
    /\ outcome = "none"
    /\ slept = FALSE
    /\ index_writes = 0

Classify ==
    /\ pc = "classify"
    /\ pc' = "classified"
    /\ outcome' = IF is_text_page(html) THEN "text" ELSE "not_text"
    /\ UNCHANGED <<listingVars, remaining, url, saved_pages, page_counter, index_entries,
                   files, fetch_count, index_file, ret, error, slept, index_writes>>

NextClassifier == Classify

SpecClassifier == InitClassifier /\ [][NextClassifier]_vars

(***************************************************************************)
(* Properties.                                                             *)
(***************************************************************************)
SavedUrls == {saved_pages[i][2] : i \in 1..Len(saved_pages)}

Fetched == {u \in DOMAIN fetch_count : fetch_count[u] > 0}

\* The page files this run wrote completely.
PersistedFiles == {f \in DOMAIN files : files[f].complete}

\* The lines of an index file below its two header lines.
RecordsOf(lines) == SubSeq(lines, 3, Len(lines))

LoopOver == pc \in {"frontier", "done", "aborted"}

\* C1: the sequence numbers of the saved pages are 1, 2, ..., k in the order
\* of acceptance, k being the number of pages saved so far: none is skipped
\* and none is given twice, whatever was unavailable or rejected in between.
C1_DenseSequenceNumbers ==
    /\ \A i \in 1..Len(saved_pages) : saved_pages[i][1] = i
    /\ {saved_pages[i][1] : i \in 1..Len(saved_pages)} = 1..Len(saved_pages)

C1_Witness ==
    /\ Len(saved_pages) = 2
    /\ outcome = "saved"
    /\ Cardinality(Fetched) = 4

\* C2: there are as many accumulated index records as page files written,
\* and when crawl() has returned, index.txt holds below its two header lines
\* exactly one record per page file, record i naming sequence number i and
\* the URL whose page is in file i, and crawl() returned that count.
C2_IndexMatchesFiles ==
    /\ Len(index_entries) = Cardinality(PersistedFiles)
    /\ pc = "done" =>
          /\ Len(index_file) = Cardinality(PersistedFiles) + 2
          /\ SubSeq(index_file, 1, 2) = IndexHeader
          /\ \A i \in 1..Len(RecordsOf(index_file)) :
                /\ Filename(i) \in PersistedFiles
                /\ RecordsOf(index_file)[i] = ToStr(i) \o "\t" \o files[Filename(i)].from
          /\ ret = Len(RecordsOf(index_file))

C2_Witness ==
    /\ pc = "done"
    /\ ret = 2
    /\ Cardinality(Fetched) > 2

\* C3: a listing page that is fetched but yields no article link ends the
\* pagination loop at once and leaves the candidate set as it was, and once
\* the loop is over no listing page is requested any more.
C3_EmptyListingStops ==
    [][ /\ ( /\ pc = "paginate"
             /\ listing_log' # listing_log
             /\ Truthy(html')
             /\ extract_article_links(html') = {} )
           => (pc' = "collected" /\ article_urls' = article_urls)
        /\ pc \in {"collected", "frontier", "done", "aborted"}
           => (listing_log' = listing_log /\ pc' \notin {"main", "paginate"})
      ]_vars

C3_Witness ==
    /\ pc = "done"
    /\ stop = "empty"
    /\ listing_log = <<0, 1, 2, 3>>
    /\ article_urls # {}

\* C4: a failed fetch of a listing page of the pagination loop ends the loop
\* at once: the candidate set stays as it is, the run goes on to the frontier
\* loop with it, every listing page is requested once and in order, and none
\* is requested after the loop.
C4_FailedListingStops ==
    [][ /\ (pc = "paginate" /\ listing_log' # listing_log /\ ~Truthy(html'))
           => (pc' = "collected" /\ article_urls' = article_urls)
        /\ listing_log' # listing_log
           => listing_log' = Append(listing_log, Len(listing_log))
        /\ pc = "collected"
           => (pc' = "frontier" /\ remaining' = article_urls /\ listing_log' = listing_log)
        /\ LoopOver => (listing_log' = listing_log /\ article_urls' = article_urls)
      ]_vars

C4_Witness ==
    /\ pc = "done"
    /\ stop = "fail"
    /\ listing_log = <<0, 1, 2>>
    /\ Len(saved_pages) = 2

\* C5: when crawl() returns after a run with fewer candidates than MIN_PAGES
\* in which every candidate fetched was saved (none unavailable, none
\* rejected), every candidate was saved: as many saved pages, page files and
\* index records as candidates, and that count returned.
C5_FewerCandidatesThanTarget ==
    ( /\ pc = "done"
      /\ Cardinality(article_urls) < MIN_PAGES
      /\ Fetched \subseteq SavedUrls )
    => /\ Len(saved_pages) = Cardinality(article_urls)
       /\ Cardinality(PersistedFiles) = Cardinality(article_urls)
       /\ Len(RecordsOf(index_file)) = Cardinality(article_urls)
       /\ ret = Cardinality(article_urls)

C5_Witness ==
    /\ pc = "done"
    /\ Cardinality(article_urls) = 2
    /\ Cardinality(article_urls) < MIN_PAGES
    /\ Fetched = SavedUrls
    /\ ret = 2

\* C6: no candidate URL is fetched more than once in the frontier loop,
\* whether it was saved, rejected or unavailable.
C6_NoRefetch == \A u \in DOMAIN fetch_count : fetch_count[u] <= 1

C6_Witness ==
    /\ Cardinality(Fetched) = 3
    /\ Len(saved_pages) = 1
    /\ outcome = "rejected"
    /\ remaining # {}

SameOrigin(u) ==
    /\ urlparse(u, "").scheme = urlparse(BASE_URL, "").scheme
    /\ urlparse(u, "").netloc = urlparse(BASE_URL, "").netloc

\* C7: every URL of the candidate set has the scheme and the host of
\* BASE_URL, a path that does not end in a blocked extension, does not
\* contain "rss", is not the listing root, and contains "/news".
C7_CandidatesInScope ==
    \A u \in article_urls :
        /\ SameOrigin(u)
        /\ ~HasBlockedExtension(LoweredPath(u))
        /\ ~Contains(LoweredPath(u), "rss")
        /\ LoweredPath(u) \notin {"/news", "/news/"}
        /\ Contains(LoweredPath(u), "/news")

\* The listing URL, with and without the trailing slash, and its pages.
ListingUrls ==
    {NEWS_URL, NEWS_URL \o "/"} \cup
    {NEWS_URL \o "?page=" \o ToStr(n) : n \in 1..max_pages_to_try}

\* C8: the listing root, with or without its trailing slash, is rejected by
\* the link filter: no link extracted from a page, no candidate and no URL
\* fetched by the frontier loop is the listing URL or one of its pages
\* ?page=n, also when the page links to them.
C8_ListingRootExcluded == (new_links \cup article_urls \cup Fetched) \cap ListingUrls = {}

C8_Witness ==
    /\ pc = "paginate"
    /\ {"/news", "/news/", "/news?page=2", "https://media.kpfu.ru/news"} \subseteq html.hrefs
    /\ new_links # {}
    /\ new_links \subseteq article_urls

CyrillicBlock == 1024..1279

LatinLetters == (65..90) \cup (97..122)

\* What C9 says of a document: its visible text has at least 100 characters
\* and holds a Cyrillic character or three Latin letters in a row.
SubstantiveText(text) ==
    /\ Len(text) >= 100
    /\ \/ \E i \in 1..Len(text) : text[i] \in CyrillicBlock
       \/ \E i \in 1..(Len(text) - 2) : {text[i], text[i + 1], text[i + 2]} \subseteq LatinLetters

\* C9: is_text_page answers true exactly for the documents whose visible
\* text is at least 100 characters long and holds a Cyrillic character or a
\* run of three Latin letters.
C9_ClassifierContract ==
    pc = "classified" => ((outcome = "text") <=> SubstantiveText(get_text(html.nodes)))

C9_Witness ==
    /\ pc = "classified"
    /\ outcome = "text"
    /\ Len(get_text(html.nodes)) = 100
    /\ \A i \in 1..100 : get_text(html.nodes)[i] \notin CyrillicBlock

\* C10: when save_page fails the run is over: nothing more can happen, the
\* page has no saved-page entry and no index record, and no index file has
\* been written.
C10_SaveFailureAborts ==
    error = "save_page" =>
        /\ pc = "aborted"
        /\ ~ENABLED Next
        /\ url \notin SavedUrls
        /\ \A i \in 1..Len(index_entries) : index_entries[i] # IndexEntry(page_counter, url)
        /\ Len(index_entries) = Cardinality(PersistedFiles)
        /\ index_file = <<>>
        /\ ret = -1

C10_Witness ==
    /\ error = "save_page"
    /\ Len(saved_pages) = 1
    /\ remaining # {}
    /\ \E f \in DOMAIN files : ~files[f].complete

\* C11: a candidate whose fetch fails or whose page the classifier rejects
\* costs nothing: that iteration leaves the sequence counter, the saved
\* pages, the index records and every file as they were, raises nothing,
\* takes the URL out of the iteration after its single fetch and leaves the
\* loop running.
C11_DiscardLeavesArchive ==
    [][(/\ pc = "frontier"
        /\ fetch_count' # fetch_count
        /\ outcome' \in {"unavailable", "rejected"})
       => /\ UNCHANGED <<page_counter, saved_pages, index_entries, files, index_file>>
          /\ pc' = "frontier"
          /\ error' = error
          /\ fetch_count'[url'] = 1
          /\ url' \notin remaining']_vars

C11_Witness ==
    /\ pc = "frontier"
    /\ outcome \in {"rejected", "unavailable"}
    /\ Len(saved_pages) = 1
    /\ Cardinality(Fetched) = 3
    /\ remaining # {}

\* C12: the phases follow one another: a candidate is fetched only in the
\* frontier loop and after the pagination loop has ended, no listing page
\* is requested once a candidate has been fetched, and the candidate set
\* stays as it is from the start of the frontier loop on.
C12_PhasesSequential ==
    [][/\ Fetched' # Fetched => (pc = "frontier" /\ stop # "none")
       /\ Fetched # {} => listing_log' = listing_log
       /\ pc \in {"frontier", "done"} =>
             (article_urls' = article_urls /\ pc' \in {"frontier", "done", "aborted"})]_vars

C12_Witness ==
    /\ pc = "done"
    /\ Len(listing_log) = 3
    /\ Cardinality(Fetched) = 3
    /\ Cardinality(article_urls) = 3

\* C13: between every two successive listing fetches the pacing delay is
\* observed: a listing page other than the first is requested only after a
\* time.sleep that followed the previous fetch.
C13_ListingFetchesPaced ==
    [][(listing_log' # listing_log /\ listing_log # <<>>) => slept]_vars

\* C14: the frontier loop never holds more saved pages than MIN_PAGES, and
\* once it holds MIN_PAGES of them no candidate is fetched any more, even
\* when candidates are left.
C14_TargetBoundsAcceptance ==
    /\ [](Len(saved_pages) <= MIN_PAGES)
    /\ [][Len(saved_pages) >= MIN_PAGES => fetch_count' = fetch_count]_vars

C14_Witness ==
    /\ pc = "done"
    /\ Len(saved_pages) = MIN_PAGES
    /\ \E u \in article_urls : fetch_count[u] = 0

\* C16: a paginated listing page that is fetched successfully and brings
\* no new link, every link extracted from it being in the candidate set
\* already, ends the pagination loop at once.
C16_NoNewLinkStops ==
    [][(/\ pc = "paginate"
        /\ listing_log' # listing_log
        /\ Truthy(html')
        /\ new_links' \subseteq article_urls)
       => pc' = "collected"]_vars

\* C16, amended: a paginated listing page that is fetched successfully ends
\* the pagination loop exactly when no link at all is extracted from it (or
\* it is page max_pages_to_try); a page all of whose links are already in
\* the candidate set leaves the set as it is and the loop goes on to the
\* next page.
C16_OnlyEmptyExtractionStops ==
    [][(/\ pc = "paginate"
        /\ listing_log' # listing_log
        /\ Truthy(html'))
       => /\ (pc' = "collected") <=> (new_links' = {} \/ page_num' = max_pages_to_try)
          /\ (new_links' # {} /\ new_links' \subseteq article_urls) =>
                /\ article_urls' = article_urls
                /\ stop' # "empty"
                /\ page_num' < max_pages_to_try => pc' = "paginate"]_vars

C16_Witness ==
    /\ pc = "paginate"
    /\ page_num = 2
    /\ Cardinality(article_urls) = 1
    /\ new_links = article_urls

\* C17: the listing pages are requested in the order 0, 1, 2, ..., at most
\* max_pages_to_try paginated ones; a page after page 1 is requested only
\* when the page before it was fetched and gave a link; each request adds
\* to the candidate set exactly the links extracted from the page it
\* fetched, and nothing else ever changes the candidate set, so that after
\* the loop it is the union of what the fetched pages gave.
C17_OrderedBoundedWalk ==
    [][/\ listing_log' # listing_log =>
            /\ listing_log' = Append(listing_log, Len(listing_log))
            /\ Len(listing_log') <= max_pages_to_try + 1
            /\ Len(listing_log) >= 2 =>
                  (Truthy(html) /\ extract_article_links(html) # {})
            /\ article_urls' =
                  article_urls \cup (IF Truthy(html') THEN extract_article_links(html') ELSE {})
       /\ listing_log' = listing_log => article_urls' = article_urls]_vars

C17_Witness ==
    /\ pc = "collected"
    /\ stop = "bound"
    /\ Len(listing_log) = max_pages_to_try + 1
    /\ Cardinality(article_urls) >= 3

\* C18: when the fetch of NEWS_URL fails the candidate set is still empty,
\* nothing has stopped and the request of page 1 comes next; a failed fetch
\* stops the traversal only when it is the fetch of a paginated page.
C18_MainFailureIsNoOp ==
    /\ (listing_log = <<0>> /\ ~Truthy(html)) =>
          /\ pc = "paginate"
          /\ article_urls = {}
          /\ stop = "none"
          /\ ENABLED PaginationStep
    /\ stop = "fail" => listing_log[Len(listing_log)] >= 1

C18_Witness ==
    /\ listing_log = <<0>>
    /\ html = EmptyBody
    /\ pc = "paginate"

\* What is left to do: the phases ahead, the listing pages not yet
\* requested and the candidates not yet yielded.
Measure ==
    (CASE pc = "start" -> 4 [] pc = "main" -> 3 [] pc = "paginate" -> 2
       [] pc = "collected" -> 2 [] pc = "frontier" -> 1 [] OTHER -> 0) * 1000
    + (IF pc \in {"start", "main", "paginate"} THEN 2 * (max_pages_to_try + 1 - page_num)
       ELSE IF pc = "collected" THEN 1 ELSE 0)
    + Cardinality(remaining)

\* C19: a run never stops before crawl() is left and every step brings it
\* nearer to its end; a run is aborted only by a failed makedirs, save_page
\* or index write; a run that ends normally has opened the index file
\* exactly once, no run opens it before the frontier loop is over, and
\* after it no page file is written and no URL fetched; a run that saved
\* no page has an index of the two header lines.
C19_TerminatesWithOneIndex ==
    /\ [](pc \in {"done", "aborted"} \/ ENABLED Next)
    /\ [][Measure' < Measure]_vars
    /\ [](pc = "aborted" => error # "none")
    /\ [](pc = "done" =>
            /\ index_writes = 1
            /\ Len(index_file) = 2 + Len(saved_pages)
            /\ saved_pages = <<>> =>
                  index_file = <<"# File Number\tURL", "#============================================================">>)
    /\ [](index_writes # 0 => (index_writes = 1 /\ pc \in {"done", "aborted"}))
    /\ [][index_writes # 0 => UNCHANGED <<files, fetch_count, index_writes>>]_vars
    /\ <>(pc \in {"done", "aborted"})

C19_Witness ==
    /\ pc = "done"
    /\ saved_pages = <<>>
    /\ Cardinality(Fetched) = 2
    /\ index_writes = 1
    /\ Len(index_file) = 2

\* The decimal digit of a number below ten.
Digit(i) == <<"1", "2", "3", "4", "5", "6", "7", "8", "9">>[i]

\* C20: the i-th saved page has the sequence number i and the file
\* page_000i.txt (i below ten), whatever was discarded before it; the i-th
\* index record pairs i with the URL of that page, the file holds the page
\* of that URL, and no two saved pages have the same file name.
C20_NumberingByAcceptanceOrder ==
    /\ \A i \in 1..Len(saved_pages) :
          /\ saved_pages[i][1] = i
          /\ saved_pages[i][3] = "page_000" \o Digit(i) \o ".txt"
          /\ index_entries[i] = Digit(i) \o "\t" \o saved_pages[i][2]
          /\ files[saved_pages[i][3]].from = saved_pages[i][2]
    /\ \A i, j \in 1..Len(saved_pages) : i # j => saved_pages[i][3] # saved_pages[j][3]

C20_Witness ==
    /\ outcome = "saved"
    /\ Len(saved_pages) = 1
    /\ Cardinality(Fetched) = 3
    /\ files["page_0001.txt"].from = url

====
